---- MODULE Spec2Model ----
(***************************************************************************)
(* LocalHostify (server-cli): request classifier, router composition,      *)
(* proxy forwarder and multi-site orchestrator.                            *)
(*                                                                         *)
(* Strings the code inspects character by character (URI paths) are        *)
(* sequences of one-character strings; header values and bodies are        *)
(* sequences of bytes.                                                     *)
(*                                                                         *)
(* Four specifications share the variables of this module:                 *)
(*   SpecClassify  should_proxy applied to paths                           *)
(*   SpecRouter    one serving site: build_router and request dispatch     *)
(*   SpecProxy     proxy_request, one exchange after the other             *)
(*   Spec          main: site resolution, port check, site server tasks    *)
(* Each leaves the variables of the others at their idle values.           *)
(***************************************************************************)
EXTENDS Integers, Sequences, FiniteSets, TLC

VARIABLES
    uri,          \* classifier: the request URI under classification
    decision,     \* classifier: "none" | "Static" | "Proxy"
    config,       \* router: ServerConfig of the site (root_dir, proxy_port)
    router,       \* router: the Router built by build_router
    request,      \* router: the request being dispatched (or NoRequest)
    response,     \* router: the response given to it (or NoResponse)
    ppc,          \* proxy: position inside proxy_request
    preq,         \* proxy: inbound request (consumed when the body is read)
    pstate,       \* proxy: locals of proxy_request that are still alive
    outbound,     \* proxy: the backend request on the wire (or NoRequest)
    backend,      \* proxy: what the backend sent back (or NoResponse)
    presult,      \* proxy: Result<Response, StatusCode> returned
    mpc,          \* main: position inside main / run_multi_sites
    sites,        \* main: the resolved Vec<SiteConfig>
    env,          \* main: the build (ssl feature) and the --host argument
    tasks,        \* main: per site, the state of its site server task
    firstDone,    \* main: index of the task that terminated first, 0 if none
    outcome,      \* main: how the process ended
    cli,          \* main: the command line as clap sees it (before resolve)
    srv,          \* https: position of run_https_server
    conns,        \* https: per accepted connection, the state of its task
    log,          \* classifier: the decisions returned so far
    net           \* network info: what the discovery calls hold while they run

clsVars    == <<uri, decision>>
routerVars == <<config, router, request, response>>
proxyVars  == <<ppc, preq, pstate, outbound, backend, presult>>
mainVars   == <<mpc, sites, env, tasks, firstDone, outcome>>
cliVars    == <<cli>>
httpsVars  == <<srv, conns>>
logVars    == <<log>>
netVars    == <<net>>
vars       == <<clsVars, routerVars, proxyVars, mainVars, cliVars, httpsVars,
                logVars, netVars>>

None       == <<>>
Some(v)    == <<v>>
NoConfig   == [kind |-> "no_config"]
NoRouter   == [kind |-> "no_router"]
NoState    == [kind |-> "no_state"]
NoRequest  == [kind |-> "no_request"]
NoResponse == [kind |-> "no_response"]

(***************************************************************************)
(* str primitives: starts_with, ends_with, contains                        *)
(***************************************************************************)
starts_with(s, p) ==
    Len(s) >= Len(p) /\ SubSeq(s, 1, Len(p)) = p

ends_with(s, p) ==
    Len(s) >= Len(p) /\ SubSeq(s, Len(s) - Len(p) + 1, Len(s)) = p

contains(s, p) ==
    \E i \in 1..(Len(s) - Len(p) + 1) : SubSeq(s, i, i + Len(p) - 1) = p

RECURSIVE Concat(_)
Concat(ss) == IF ss = <<>> THEN <<>> ELSE Head(ss) \o Concat(Tail(ss))

S_slash   == <<"/">>
S_api     == <<"/", "a", "p", "i">>
S_apis    == <<"/", "a", "p", "i", "/">>
S_v1      == <<"/", "v", "1">>
S_graphql == <<"/", "g", "r", "a", "p", "h", "q", "l">>
S_app     == <<"/", "a", "p", "p">>
S_x       == <<"x">>
E_html    == <<".", "h", "t", "m", "l">>
E_css     == <<".", "c", "s", "s">>
E_js      == <<".", "j", "s">>
E_png     == <<".", "p", "n", "g">>
E_jpg     == <<".", "j", "p", "g">>
E_jpeg    == <<".", "j", "p", "e", "g">>
E_gif     == <<".", "g", "i", "f">>
E_svg     == <<".", "s", "v", "g">>
E_ico     == <<".", "i", "c", "o">>
E_woff    == <<".", "w", "o", "f", "f">>
E_woff2   == <<".", "w", "o", "f", "f", "2">>
E_ttf     == <<".", "t", "t", "f">>
E_eot     == <<".", "e", "o", "t">>

StaticExtensions ==
    {E_html, E_css, E_js, E_png, E_jpg, E_jpeg, E_gif, E_svg, E_ico,
     E_woff, E_woff2, E_ttf, E_eot}

(***************************************************************************)
(* http::Uri as the handlers see it: path() and query()                    *)
(***************************************************************************)
Uri(p, q) == [path |-> p, query |-> q]

\* main.rs should_proxy with the `/v1` prefix test widened to a substring test
should_proxy_v1_anywhere(u) ==
    LET path == u.path IN
       starts_with(path, S_api)
    \/ contains(path, S_v1)
    \/ starts_with(path, S_graphql)
    \/ (   contains(path, S_apis)
        /\ \A e \in StaticExtensions : ~ends_with(path, e))

\* main.rs should_proxy with the `/graphql` prefix test left out
should_proxy_no_graphql(u) ==
    LET path == u.path IN
       starts_with(path, S_api)
    \/ starts_with(path, S_v1)
    \/ (   contains(path, S_apis)
        /\ \A e \in StaticExtensions : ~ends_with(path, e))

\* main.rs:389-410.  In Rust `&&` binds tighter than `||`: the chain of
\* !ends_with tests belongs to the last disjunct, contains("/api/"), only.
should_proxy(u) ==
    LET path == u.path IN
       starts_with(path, S_api)
    \/ starts_with(path, S_v1)
    \/ starts_with(path, S_graphql)
    \/ (   contains(path, S_apis)
        /\ ~ends_with(path, E_html)
        /\ ~ends_with(path, E_css)
        /\ ~ends_with(path, E_js)
        /\ ~ends_with(path, E_png)
        /\ ~ends_with(path, E_jpg)
        /\ ~ends_with(path, E_jpeg)
        /\ ~ends_with(path, E_gif)
        /\ ~ends_with(path, E_svg)
        /\ ~ends_with(path, E_ico)
        /\ ~ends_with(path, E_woff)
        /\ ~ends_with(path, E_woff2)
        /\ ~ends_with(path, E_ttf)
        /\ ~ends_with(path, E_eot))

\* a decision that looks at the site root before the path rules
classify_file_first(u) ==
    IF config # NoConfig /\ u.path \in config.root_dir THEN "Static"
    ELSE IF should_proxy(u) THEN "Proxy" ELSE "Static"

\* RoutingDecision of the spec, as the fallback handler derives it
classify(u) == IF should_proxy(u) THEN "Proxy" ELSE "Static"

(***************************************************************************)
(* SpecClassify: the classifier applied to generated paths                 *)
(***************************************************************************)
MaxPieces == 3

PathPieces ==
    {S_slash, S_api, S_v1, S_graphql, S_app, S_x} \cup StaticExtensions

RECURSIVE PieceSeqs(_)
PieceSeqs(n) ==
    IF n = 0 THEN {<<>>}
    ELSE LET shorter == PieceSeqs(n - 1) IN
         shorter \cup {Append(s, p) : s \in shorter, p \in PathPieces}

ClassifyPaths == {Concat(ps) : ps \in PieceSeqs(MaxPieces)}

IdleClassify == uri = Uri(<<>>, None) /\ decision = "none"
IdleRouter   == config = NoConfig /\ router = NoRouter
                /\ request = NoRequest /\ response = NoResponse
IdleProxy    == ppc = "idle" /\ preq = NoRequest /\ pstate = NoState
                /\ outbound = NoRequest /\ backend = NoResponse
                /\ presult = NoResponse
IdleLog      == log = {}
IdleNet      == net = NoState
IdleCli      == cli = NoState
IdleHttps    == srv = NoState /\ conns = <<>>
IdleMain     == mpc = "idle" /\ sites = <<>> /\ env = NoState
                /\ tasks = <<>> /\ firstDone = 0
                /\ outcome = [kind |-> "running"]

ClassifyInit ==
    /\ uri \in {Uri(p, None) : p \in ClassifyPaths}
    /\ decision = "none"
    /\ IdleRouter /\ IdleProxy /\ IdleMain /\ IdleCli /\ IdleHttps /\ IdleLog
    /\ IdleNet

\* the fallback handler's `if should_proxy(&uri)` on the request it was given
Classify ==
    /\ decision = "none"
    /\ decision' = classify(uri)
    /\ UNCHANGED <<uri, routerVars, proxyVars, mainVars,
                   cliVars, httpsVars, logVars, netVars>>

ClassifyNext == Classify

SpecClassify == ClassifyInit /\ [][ClassifyNext]_vars

HasStaticExtension(path) == \E e \in StaticExtensions : ends_with(path, e)

HasApiPrefix(path) ==
    starts_with(path, S_api) \/ starts_with(path, S_v1)
    \/ starts_with(path, S_graphql)

\* C2: every path that contains /api/ and ends in a static-asset extension
\* is classified Static, also when it begins with /api.
C2_ExtensionOverridesApi ==
    (decision # "none" /\ contains(uri.path, S_apis)
        /\ HasStaticExtension(uri.path))
    => decision = "Static"

\* C3: every path without a static-asset extension that starts with /api,
\* /v1 or /graphql, or contains /api/, is classified Proxy.
C3_ApiPathsAreProxy ==
    (decision # "none" /\ ~HasStaticExtension(uri.path)
        /\ (HasApiPrefix(uri.path) \/ contains(uri.path, S_apis)))
    => decision = "Proxy"

C3_Witness ==
    /\ decision = "Proxy"
    /\ uri.path = S_app \o S_api \o S_slash
    /\ ~HasApiPrefix(uri.path)

\* C4: every path that neither starts with /api, /v1 or /graphql nor
\* contains /api/ is classified Static, whatever its extension.
C4_OtherPathsAreStatic ==
    (decision # "none" /\ ~HasApiPrefix(uri.path)
        /\ ~contains(uri.path, S_apis))
    => decision = "Static"

C4_Witness ==
    /\ decision = "Static"
    /\ uri.path = <<>>

(***************************************************************************)
(* SpecRouter: one site server in Serving; build_router and the dispatch   *)
(* of a request to health_check, the fallback handler or ServeDir          *)
(***************************************************************************)
S_health     == <<"/", "h", "e", "a", "l", "t", "h">>
S_healthz    == S_health \o <<"z">>
S_healthdir  == S_health \o S_slash
S_index_html == <<"/", "i", "n", "d", "e", "x">> \o E_html
S_users      == <<"/", "u", "s", "e", "r", "s">>
S_api_users  == S_api \o S_users
S_api_css    == S_api_users \o <<"/", "s">> \o E_css
S_v1_foo     == S_v1 \o <<"/", "f", "o", "o">>
S_app_items  == S_app \o S_apis \o <<"i", "t", "e", "m", "s">>
S_query      == <<"a", "=", "1">>

S_docs       == <<"/", "d", "o", "c", "s">>
S_docsdir    == <<"/", "d", "o", "c", "s", "/">>
S_docs_index == <<"/", "d", "o", "c", "s", "/", "i", "n", "d", "e", "x", ".", "h", "t", "m", "l">>
HealthBody == "LocalHostify server is healthy"

RouterMethods == {"GET", "HEAD", "POST"}
RouterPaths ==
    {S_health, S_healthz, S_healthdir, S_slash, S_index_html, S_api_users,
     S_api_css, S_v1_foo, S_graphql, S_app_items, S_docs, S_docsdir}
RouterQueries == {None, Some(S_query)}
RouterRequests ==
    {[method |-> m, uri |-> Uri(p, q)] :
        m \in RouterMethods, p \in RouterPaths, q \in RouterQueries}

\* files that may exist under a site root, as paths relative to the root
RootFiles   == {S_index_html, S_health, S_api_users, S_docs_index}
BackendPort == 3000
RouterConfigs ==
    [root_dir : SUBSET RootFiles, proxy_port : {None, Some(BackendPort)}]

\* axum Router: the routes added with route(), and the one fallback slot
\* that fallback() and fallback_service() both assign
NewRouter == [routes |-> {}, fallback |-> "default_404"]
route(r, path, handler) ==
    [r EXCEPT !.routes = @ \cup {[path |-> path, get |-> handler]}]
fallback(r, handler) == [r EXCEPT !.fallback = handler]
fallback_service(r, service) == [r EXCEPT !.fallback = service]

\* build_router that registers /health only
build_router_no_healthz(cfg) ==
    LET r0 == route(NewRouter, S_health, "health_check")
    IN  fallback_service(r0, "ServeDir")

\* build_router with the two fallback calls in the other order
build_router_handler_last(cfg) ==
    LET r0 == route(route(NewRouter, S_health, "health_check"),
                    S_healthz, "health_check")
    IN  IF cfg.proxy_port # None
        THEN fallback(fallback_service(r0, "ServeDir"), "proxy_handler")
        ELSE fallback_service(r0, "ServeDir")

\* build_router that installs the closure whether or not a port is set
build_router_proxy_without_backend(cfg) ==
    LET r0 == route(route(NewRouter, S_health, "health_check"),
                    S_healthz, "health_check")
    IN  IF cfg.proxy_port # None
        THEN fallback_service(fallback(r0, "proxy_handler"), "ServeDir")
        ELSE fallback(fallback_service(r0, "ServeDir"), "proxy_handler")

\* main.rs:356-387
build_router(cfg) ==
    LET r0 == route(route(NewRouter, S_health, "health_check"),
                    S_healthz, "health_check")
    IN  IF cfg.proxy_port # None
        THEN fallback_service(fallback(r0, "proxy_handler"), "ServeDir")
        ELSE fallback_service(r0, "ServeDir")

StripSlash(p) ==
    IF p # <<>> /\ p[Len(p)] = "/" THEN SubSeq(p, 1, Len(p) - 1) ELSE p

IsDir(files, p) ==
    \E f \in files : starts_with(f, StripSlash(p) \o S_slash)

\* tower_http ServeDir on the site root, append_index_html_on_directories
ServeDir(files, req) ==
    LET p == req.uri.path
        content(f) == IF req.method = "HEAD" THEN None ELSE <<"file", f>>
    IN
    IF req.method \notin {"GET", "HEAD"}
    THEN [handler |-> "ServeDir", status |-> 405, body |-> None]
    ELSE IF p \in files
    THEN [handler |-> "ServeDir", status |-> 200, body |-> content(p)]
    ELSE IF p = S_slash \/ IsDir(files, p)
    THEN IF p[Len(p)] # "/"
         THEN [handler |-> "ServeDir", status |-> 307, body |-> None]
         ELSE IF StripSlash(p) \o S_index_html \in files
         THEN [handler |-> "ServeDir", status |-> 200,
               body |-> content(StripSlash(p) \o S_index_html)]
         ELSE [handler |-> "ServeDir", status |-> 404, body |-> None]
    ELSE [handler |-> "ServeDir", status |-> 404, body |-> None]

\* main.rs:476-478 behind routing::get: GET and HEAD reach the handler,
\* any other method gets the method router's 405
health_check(req) ==
    IF req.method = "GET"
    THEN [handler |-> "health_check", status |-> 200, body |-> <<"text", HealthBody>>]
    ELSE IF req.method = "HEAD"
    THEN [handler |-> "health_check", status |-> 200, body |-> None]
    ELSE [handler |-> "method_router", status |-> 405, body |-> None]

\* main.rs:370-381, the closure given to Router::fallback
proxy_handler(cfg, req) ==
    IF should_proxy(req.uri)
    THEN [handler |-> "proxy_request", status |-> 0, body |-> None]
    ELSE [handler |-> "proxy_handler", status |-> 404, body |-> None]

\* Router::call: an exact route match first, the fallback slot otherwise
Dispatch(r, cfg, req) ==
    IF \E rt \in r.routes : rt.path = req.uri.path
    THEN health_check(req)
    ELSE CASE r.fallback = "proxy_handler" -> proxy_handler(cfg, req)
           [] r.fallback = "ServeDir"      -> ServeDir(cfg.root_dir, req)
           [] OTHER -> [handler |-> "default_404", status |-> 404,
                        body |-> None]

RouterInit ==
    /\ config \in RouterConfigs
    /\ router = NoRouter
    /\ request = NoRequest
    /\ response = NoResponse
    /\ IdleClassify /\ IdleProxy /\ IdleMain /\ IdleCli /\ IdleHttps /\ IdleLog
    /\ IdleNet

\* run_single_site / run_site_server: `build_router(state.clone()).await?`
BuildRouter ==
    /\ router = NoRouter
    /\ router' = build_router(config)
    /\ UNCHANGED <<config, request, response, clsVars, proxyVars, mainVars,
                   cliVars, httpsVars, logVars, netVars>>

\* a request arrives on an established connection of the serving site
Receive ==
    /\ router # NoRouter
    /\ request = NoRequest \/ response # NoResponse
    /\ request' \in RouterRequests
    /\ response' = NoResponse
    /\ UNCHANGED <<config, router, clsVars, proxyVars, mainVars,
                   cliVars, httpsVars, logVars, netVars>>

\* the router answers it
Respond ==
    /\ request # NoRequest
    /\ response = NoResponse
    /\ response' = Dispatch(router, config, request)
    /\ UNCHANGED <<config, router, request, clsVars, proxyVars, mainVars,
                   cliVars, httpsVars, logVars, netVars>>

RouterNext == BuildRouter \/ Receive \/ Respond

SpecRouter == RouterInit /\ [][RouterNext]_vars

HealthPaths == {S_health, S_healthz}

\* C1: on a site with a backend port, every request other than /health and
\* /healthz whose path the classifier maps to Proxy is handed to
\* proxy_request and never answered by the Static Responder.
C1_ProxyPathsReachForwarder ==
    (response # NoResponse /\ config.proxy_port # None
        /\ request.uri.path \notin HealthPaths
        /\ classify(request.uri) = "Proxy")
    => response.handler = "proxy_request"

\* C7: GET /health and GET /healthz answer 200 with the fixed body for every
\* root content and with or without a backend; these two paths never reach
\* the proxy and are never resolved against the root.
C7_HealthAlwaysOk ==
    (response # NoResponse /\ request.uri.path \in HealthPaths)
    => /\ response.handler \notin {"proxy_request", "proxy_handler", "ServeDir"}
       /\ request.method = "GET"
            => /\ response.handler = "health_check"
               /\ response.status = 200
               /\ response.body = <<"text", HealthBody>>

C7_Witness ==
    /\ response # NoResponse
    /\ request.method = "GET"
    /\ request.uri.path = S_healthz
    /\ config.proxy_port # None
    /\ config.root_dir = {}
    /\ response.status = 200

(***************************************************************************)
(* Header maps (http::HeaderMap): lower-case name -> values in order.      *)
(* append adds a value under the name, insert replaces the values there.   *)
(***************************************************************************)
\* header names as they may stand on the wire
WireNames ==
    {"Connection", "Keep-Alive", "Proxy-Authenticate", "proxy-authorization",
     "TE", "trailers", "Transfer-Encoding", "UPGRADE", "Host", "x-a",
     "Set-Cookie", "Access-Control-Allow-Origin"}

\* str::to_lowercase / the lower-casing HeaderName parser
Lower(n) ==
    CASE n = "Connection"                  -> "connection"
      [] n = "Keep-Alive"                  -> "keep-alive"
      [] n = "Proxy-Authenticate"          -> "proxy-authenticate"
      [] n = "TE"                          -> "te"
      [] n = "Transfer-Encoding"           -> "transfer-encoding"
      [] n = "UPGRADE"                     -> "upgrade"
      [] n = "Host"                        -> "host"
      [] n = "Set-Cookie"                  -> "set-cookie"
      [] n = "Access-Control-Allow-Origin" -> "access-control-allow-origin"
      [] OTHER                             -> n

CorsNames ==
    {"access-control-allow-origin", "access-control-allow-methods",
     "access-control-allow-headers"}

HeaderNames == {Lower(n) : n \in WireNames} \cup CorsNames \cup {"content-type"}

EmptyHeaderMap == [n \in HeaderNames |-> <<>>]
append(m, n, v) == [m EXCEPT ![n] = Append(@, v)]
insert(m, n, v) == [m EXCEPT ![n] = <<v>>]

\* hyper reading the header lines of a message into a HeaderMap
RECURSIVE ParseHeaders(_)
ParseHeaders(wire) ==
    IF wire = <<>> THEN EmptyHeaderMap
    ELSE LET e == wire[Len(wire)] IN
         append(ParseHeaders(SubSeq(wire, 1, Len(wire) - 1)),
                Lower(e.name), e.value)

\* header values and bodies are bytes
V_plain  == <<118, 49>>
V_other  == <<118, 50>>
V_opaque == <<255>>
V_star   == <<42>>
V_json   == <<97, 112, 112, 108, 105, 99, 97, 116, 105, 111, 110, 47,
              106, 115, 111, 110>>
V_cors_methods ==
    <<71, 69, 84, 44, 32, 80, 79, 83, 84, 44, 32, 80, 85, 84, 44, 32,
      68, 69, 76, 69, 84, 69, 44, 32, 79, 80, 84, 73, 79, 78, 83>>
V_cors_headers ==
    <<99, 111, 110, 116, 101, 110, 116, 45, 116, 121, 112, 101, 44, 32,
      97, 117, 116, 104, 111, 114, 105, 122, 97, 116, 105, 111, 110>>

is_visible_ascii(b) == (b >= 32 /\ b < 127) \/ b = 9
\* HeaderValue::to_str and HeaderValue::from_str succeed on the same values
to_str_ok(v)     == \A i \in 1..Len(v) : is_visible_ascii(v[i])
from_str_ok(v)   == \A i \in 1..Len(v) : is_visible_ascii(v[i])
\* HeaderValue::from_bytes
from_bytes_ok(v) == \A i \in 1..Len(v) : (v[i] >= 32 /\ v[i] # 127) \/ v[i] = 9

\* proxy.rs is_hop_by_hop_header without the "host" arm
is_hop_by_hop_header_no_host(name) ==
    name \in {"connection", "keep-alive", "proxy-authenticate",
              "proxy-authorization", "te", "trailers", "transfer-encoding",
              "upgrade"}

\* proxy.rs:146-151
is_hop_by_hop_header(name) ==
    name \in {"connection", "keep-alive", "proxy-authenticate",
              "proxy-authorization", "te", "trailers", "transfer-encoding",
              "upgrade", "host"}

\* proxy.rs:42-54, the loop body for the values found under one name
RECURSIVE ForwardRequestValues(_, _, _)
ForwardRequestValues(m, name, values) ==
    IF values = <<>> THEN m
    ELSE LET value == Head(values)
             name_str == Lower(name)
             next ==
                 IF is_hop_by_hop_header(name_str) THEN m
                 ELSE IF to_str_ok(value) /\ from_str_ok(value)
                      THEN insert(m, Lower(name), value)
                      ELSE m
         IN  ForwardRequestValues(next, name, Tail(values))

\* proxy.rs:96-107, the loop body for the values found under one name
RECURSIVE ForwardResponseValues(_, _, _)
ForwardResponseValues(m, name, values) ==
    IF values = <<>> THEN m
    ELSE LET value == Head(values)
             next ==
                 IF is_hop_by_hop_header(Lower(name)) THEN m
                 ELSE IF from_bytes_ok(value)
                      THEN insert(m, Lower(name), value)
                      ELSE m
         IN  ForwardResponseValues(next, name, Tail(values))

\* proxy.rs:42 `for (name, value) in req.headers().iter()`: names in any
\* order, the values of one name in their order; insert touches the entry
\* of its own name only
RECURSIVE ForwardRequestHeaders(_, _, _)
ForwardRequestHeaders(m, names, headers) ==
    IF names = {} THEN m
    ELSE LET n == CHOOSE x \in names : TRUE IN
         ForwardRequestHeaders(ForwardRequestValues(m, n, headers[n]),
                               names \ {n}, headers)

\* proxy.rs:97 `for (name, value) in headers.iter()`
RECURSIVE ForwardResponseHeaders(_, _, _)
ForwardResponseHeaders(m, names, headers) ==
    IF names = {} THEN m
    ELSE LET n == CHOOSE x \in names : TRUE IN
         ForwardResponseHeaders(ForwardResponseValues(m, n, headers[n]),
                                names \ {n}, headers)

\* proxy.rs:41-54
reqwest_headers(headers) ==
    ForwardRequestHeaders(EmptyHeaderMap, HeaderNames, headers)

\* proxy.rs:96-113 with the three CORS inserts placed before the copy loop
response_headers_cors_first(headers) ==
    LET h1 == insert(EmptyHeaderMap, "access-control-allow-origin", V_star)
        h2 == insert(h1, "access-control-allow-methods", V_cors_methods)
        h3 == insert(h2, "access-control-allow-headers", V_cors_headers)
    IN  ForwardResponseHeaders(h3, HeaderNames, headers)

\* proxy.rs:96-113
response_headers(headers) ==
    LET copied == ForwardResponseHeaders(EmptyHeaderMap, HeaderNames, headers)
        h1 == insert(copied, "access-control-allow-origin", V_star)
        h2 == insert(h1, "access-control-allow-methods", V_cors_methods)
    IN  insert(h2, "access-control-allow-headers", V_cors_headers)

(***************************************************************************)
(* The target URL: format! builds a string, reqwest parses it (url::Url)   *)
(***************************************************************************)
S_http_prefix ==
    <<"h", "t", "t", "p", ":", "/", "/", "1", "2", "7", ".", "0", ".", "0",
      ".", "1", ":">>
S_loopback == <<"1", "2", "7", ".", "0", ".", "0", ".", "1">>
S_http     == <<"h", "t", "t", "p">>
S_star     == <<"*">>
S_dotdot   == <<"/", ".", ".">>
S_up_path  == S_api \o S_dotdot \o <<"/", "x">>

DigitChars == <<"0", "1", "2", "3", "4", "5", "6", "7", "8", "9">>
IsDigit(c) == \E d \in 1..10 : DigitChars[d] = c
DigitVal(c) == (CHOOSE d \in 1..10 : DigitChars[d] = c) - 1

\* Display of a u16 inside format!
RECURSIVE ToDigits(_)
ToDigits(n) ==
    IF n < 10 THEN <<DigitChars[n + 1]>>
    ELSE ToDigits(n \div 10) \o <<DigitChars[(n % 10) + 1]>>

RECURSIVE FromDigits(_)
FromDigits(cs) ==
    IF cs = <<>> THEN 0
    ELSE 10 * FromDigits(SubSeq(cs, 1, Len(cs) - 1)) + DigitVal(cs[Len(cs)])

\* first position of a character of cset in s, Len(s) + 1 when there is none
FirstOf(s, cset) ==
    IF \E i \in 1..Len(s) : s[i] \in cset
    THEN CHOOSE i \in 1..Len(s) :
            s[i] \in cset /\ \A k \in 1..(i - 1) : s[k] \notin cset
    ELSE Len(s) + 1

\* last position of character c in s, 0 when there is none
LastOf(s, c) ==
    IF \E i \in 1..Len(s) : s[i] = c
    THEN CHOOSE i \in 1..Len(s) :
            s[i] = c /\ \A k \in (i + 1)..Len(s) : s[k] # c
    ELSE 0

\* Uri::path_and_query().map(as_str).unwrap_or(uri.path()), proxy.rs:29
path_and_query(u) ==
    IF u.query = None THEN u.path ELSE u.path \o <<"?">> \o u.query[1]

\* proxy.rs:33
proxy_url(proxy_port, pq) == S_http_prefix \o ToDigits(proxy_port) \o pq

RECURSIVE SplitSegments(_)
SplitSegments(s) ==
    LET k == FirstOf(s, {"/"}) IN
    IF k > Len(s) THEN <<s>>
    ELSE <<SubSeq(s, 1, k - 1)>> \o SplitSegments(SubSeq(s, k + 1, Len(s)))

RECURSIVE JoinSegments(_)
JoinSegments(segs) ==
    IF segs = <<>> THEN <<>>
    ELSE S_slash \o Head(segs) \o JoinSegments(Tail(segs))

IsSingleDot(seg) == seg \in {<<".">>, <<"%", "2", "e">>, <<"%", "2", "E">>}
IsDoubleDot(seg) ==
    seg \in {<<".", ".">>, <<".", "%", "2", "e">>, <<"%", "2", "e", ".">>,
             <<"%", "2", "e", "%", "2", "e">>}

\* the URL parser's path state: `.` segments are dropped, `..` removes the
\* segment before it
RECURSIVE ShortenPath(_, _)
ShortenPath(segs, out) ==
    IF segs = <<>> THEN out
    ELSE LET seg  == Head(segs)
             last == Len(segs) = 1
             popped == IF out = <<>> THEN <<>>
                       ELSE SubSeq(out, 1, Len(out) - 1)
         IN  IF IsDoubleDot(seg)
             THEN ShortenPath(Tail(segs),
                              IF last THEN Append(popped, <<>>) ELSE popped)
             ELSE IF IsSingleDot(seg)
             THEN ShortenPath(Tail(segs),
                              IF last THEN Append(out, <<>>) ELSE out)
             ELSE ShortenPath(Tail(segs), Append(out, seg))

\* path of the parsed URL
UrlPath(raw) ==
    IF raw = <<>> THEN S_slash
    ELSE JoinSegments(ShortenPath(SplitSegments(Tail(raw)), <<>>))

\* url::Url::parse of an http URL, as IntoUrl does for client.request
UrlParse(s) ==
    LET i         == CHOOSE k \in 1..(Len(s) - 2) : SubSeq(s, k, k + 2) = <<":", "/", "/">>
        scheme    == SubSeq(s, 1, i - 1)
        rest      == SubSeq(s, i + 3, Len(s))
        j         == FirstOf(rest, {"/", "?", "#"})
        authority == SubSeq(rest, 1, j - 1)
        tail      == SubSeq(rest, j, Len(rest))
        a         == LastOf(authority, "@")
        hostport  == SubSeq(authority, a + 1, Len(authority))
        c         == LastOf(hostport, ":")
        host      == IF c = 0 THEN hostport ELSE SubSeq(hostport, 1, c - 1)
        portchars == IF c = 0 THEN <<>>
                     ELSE SubSeq(hostport, c + 1, Len(hostport))
        portok    == \A k \in 1..Len(portchars) : IsDigit(portchars[k])
        q         == FirstOf(tail, {"?"})
        rawpath   == SubSeq(tail, 1, q - 1)
    IN  IF ~portok \/ host = <<>>
        THEN [ok |-> FALSE]
        ELSE [ok     |-> TRUE,
              scheme |-> scheme,
              host   |-> host,
              port   |-> IF portchars = <<>> THEN 80 ELSE FromDigits(portchars),
              path   |-> UrlPath(rawpath),
              query  |-> IF q > Len(tail) THEN None
                         ELSE Some(SubSeq(tail, q + 1, Len(tail)))]

\* reqwest::Method::from_bytes, proxy.rs:66-69: GET when the token is invalid
reqwest_method(method_str) == IF method_str = "" THEN "GET" ELSE method_str

\* hyper::StatusCode::from_u16(..).unwrap_or(INTERNAL_SERVER_ERROR), proxy.rs:84
hyper_status(status_code) ==
    IF status_code >= 100 /\ status_code < 1000 THEN status_code ELSE 500

(***************************************************************************)
(* SpecProxy: proxy_request on one inbound request                         *)
(***************************************************************************)
MaxReqHeaders  == 2
MaxRespHeaders == 2

RequestWireNames ==
    {"Connection", "Keep-Alive", "Proxy-Authenticate", "proxy-authorization",
     "TE", "trailers", "Transfer-Encoding", "UPGRADE", "Host", "x-a"}
ResponseWireNames ==
    {"Set-Cookie", "Transfer-Encoding", "Access-Control-Allow-Origin", "x-a"}
HeaderValues == {V_plain, V_other, V_opaque}

RECURSIVE HeaderLists(_, _)
HeaderLists(entries, n) ==
    IF n = 0 THEN {<<>>}
    ELSE LET shorter == HeaderLists(entries, n - 1) IN
         shorter \cup {Append(l, e) : l \in shorter, e \in entries}

RequestWires ==
    HeaderLists([name : RequestWireNames, value : HeaderValues], MaxReqHeaders)
ResponseWires ==
    HeaderLists([name : ResponseWireNames, value : HeaderValues], MaxRespHeaders)

ProxyMethods == {"GET", "PURGE"}
ProxyUris ==
    {Uri(S_v1_foo, None), Uri(S_api_users, Some(S_query)),
     Uri(S_up_path, None), Uri(S_star, None)}
\* the inbound body: its bytes, or None when reading it fails
ProxyBodies == {Some(<<1, 2>>), None}

BackendStatuses == {200, 404}
BackendBodies   == {Some(<<7>>), None}
S_https == <<"h", "t", "t", "p", "s">>
S_elsewhere == <<"e", "x", "a", "m", "p", "l", "e", ".", "c", "o", "m">>

\* scheme, host and port of a request target
Origin(scheme, host, port) == [scheme |-> scheme, host |-> host, port |-> port]
OriginOf(url) == Origin(url.scheme, url.host, url.port)
BackendOrigin(proxy_port) == Origin(S_http, S_loopback, proxy_port)

\* where a 3xx answer with a Location header can point
RedirectOrigins == {BackendOrigin(BackendPort), Origin(S_https, S_elsewhere, 443)}

\* reqwest::Client::new() follows redirects with Policy::limited(10)
RedirectLimit == 10

BackendResults ==
    {[kind |-> "response", status |-> st, wire |-> w,
      headers |-> ParseHeaders(w), body |-> b] :
        st \in BackendStatuses, w \in ResponseWires, b \in BackendBodies}
    \cup {[kind |-> "connect_error"], [kind |-> "other_error"]}
    \cup {[kind |-> "redirect", location |-> o] : o \in RedirectOrigins}

Err(code) == [kind |-> "Err", status |-> code]
Ok(code, headers, body) ==
    [kind |-> "Ok", status |-> code, headers |-> headers, body |-> body]

S_no_server_at ==
    <<"N", "o", " ", "s", "e", "r", "v", "e", "r", " ", "f", "o", "u", "n",
      "d", " ", "a", "t", " ", "l", "o", "c", "a", "l", "h", "o", "s", "t", ":">>
S_start_backend ==
    <<"S", "t", "a", "r", "t", " ", "y", "o", "u", "r", " ", "b", "a", "c",
      "k", "e", "n", "d", " ", "o", "n", " ", "p", "o", "r", "t", " ">>

\* the 502 answer without its access-control-allow-origin header
connect_error_response_no_cors(proxy_port) ==
    Ok(502,
       insert(EmptyHeaderMap, "content-type", V_json),
       <<"json", [error      |-> "Backend server not available",
                  message    |-> S_no_server_at \o ToDigits(proxy_port)
                                 \o <<".">>,
                  suggestion |-> S_start_backend \o ToDigits(proxy_port)]>>)

\* proxy.rs:122-138
connect_error_response(proxy_port) ==
    Ok(502,
       insert(insert(EmptyHeaderMap, "content-type", V_json),
              "access-control-allow-origin", V_star),
       <<"json", [error      |-> "Backend server not available",
                  message    |-> S_no_server_at \o ToDigits(proxy_port)
                                 \o <<".">>,
                  suggestion |-> S_start_backend \o ToDigits(proxy_port)]>>)

ProxyInit ==
    /\ config \in [root_dir : {{}}, proxy_port : {None, Some(BackendPort)}]
    /\ preq \in {[method |-> m, uri |-> u, wire |-> w,
                  headers |-> ParseHeaders(w), body |-> b] :
                    m \in ProxyMethods, u \in ProxyUris,
                    w \in RequestWires, b \in ProxyBodies}
    /\ ppc = "start"
    /\ pstate = NoState
    /\ outbound = NoRequest
    /\ backend = NoResponse
    /\ presult = NoResponse
    /\ router = NoRouter /\ request = NoRequest /\ response = NoResponse
    /\ IdleClassify /\ IdleMain /\ IdleCli /\ IdleHttps /\ IdleLog
    /\ IdleNet

\* proxy.rs:20-54: the port, the target URL, the forwarded headers
ProxyPrepare ==
    /\ ppc = "start"
    /\ IF config.proxy_port = None
       THEN /\ presult' = Err(500)
            /\ ppc' = "done"
            /\ preq' = NoRequest
            /\ UNCHANGED pstate
       ELSE /\ pstate' =
                [proxy_port |-> config.proxy_port[1],
                 method_str |-> preq.method,
                 proxy_url  |-> proxy_url(config.proxy_port[1],
                                          path_and_query(preq.uri)),
                 reqwest_headers |-> reqwest_headers(preq.headers)]
            /\ ppc' = "read_body"
            /\ UNCHANGED <<preq, presult>>
    /\ UNCHANGED <<config, outbound, backend, router, request, response,
                   clsVars, mainVars,
                   cliVars, httpsVars, logVars, netVars>>

\* proxy.rs:56-76 with a failed body read sent on as an empty body
ProxyReadBodyAndSend_ignores_body_error ==
    /\ ppc = "read_body"
    /\ LET url == UrlParse(pstate.proxy_url) IN
            IF ~url.ok
            THEN \* send() returns the builder's error, which is no connect error
                 /\ presult' = Err(502)
                 /\ ppc' = "done"
                 /\ preq' = NoRequest
                 /\ pstate' = [proxy_port |-> pstate.proxy_port]
                 /\ UNCHANGED outbound
            ELSE /\ outbound' =
                     [kind    |-> "request",
                      method  |-> reqwest_method(pstate.method_str),
                      url     |-> url,
                      headers |-> pstate.reqwest_headers,
                      body    |-> IF preq.body = None THEN <<>>
                                  ELSE preq.body[1]]
                 /\ ppc' = "sent"
                 /\ pstate' = [proxy_port |-> pstate.proxy_port,
                               issued     |-> 1,
                               origins    |-> {OriginOf(url)}]
                 /\ UNCHANGED <<preq, presult>>
    /\ UNCHANGED <<config, backend, router, request, response,
                   clsVars, mainVars,
                   cliVars, httpsVars, logVars, netVars>>

\* proxy.rs:56-76: the body is read, the backend request built and sent
ProxyReadBodyAndSend ==
    /\ ppc = "read_body"
    /\ IF preq.body = None
       THEN /\ presult' = Err(400)
            /\ ppc' = "done"
            /\ preq' = NoRequest
            /\ pstate' = [proxy_port |-> pstate.proxy_port]
            /\ UNCHANGED outbound
       ELSE LET url == UrlParse(pstate.proxy_url) IN
            IF ~url.ok
            THEN \* send() returns the builder's error, which is no connect error
                 /\ presult' = Err(502)
                 /\ ppc' = "done"
                 /\ preq' = NoRequest
                 /\ pstate' = [proxy_port |-> pstate.proxy_port]
                 /\ UNCHANGED outbound
            ELSE /\ outbound' =
                     [kind    |-> "request",
                      method  |-> reqwest_method(pstate.method_str),
                      url     |-> url,
                      headers |-> pstate.reqwest_headers,
                      body    |-> preq.body[1]]
                 /\ ppc' = "sent"
                 /\ pstate' = [proxy_port |-> pstate.proxy_port,
                               issued     |-> 1,
                               origins    |-> {OriginOf(url)}]
                 /\ UNCHANGED <<preq, presult>>
    /\ UNCHANGED <<config, backend, router, request, response,
                   clsVars, mainVars,
                   cliVars, httpsVars, logVars, netVars>>

\* the request leaves for 127.0.0.1; proxy_request is suspended in send()
BackendReceive ==
    /\ ppc = "sent"
    /\ ppc' = "awaiting"
    /\ preq' = NoRequest
    /\ outbound' = NoRequest
    /\ UNCHANGED <<config, pstate, backend, presult, router, request,
                   response, clsVars, mainVars,
                   cliVars, httpsVars, logVars, netVars>>

\* proxy.rs:37 and 76: inside send() the client follows a redirect answer
\* with a further request, up to RedirectLimit times
FollowRedirect(r) ==
    /\ r.kind = "redirect"
    /\ pstate.issued <= RedirectLimit
    /\ pstate' = [pstate EXCEPT !.issued = @ + 1,
                                !.origins = @ \cup {r.location}]
    /\ UNCHANGED <<ppc, backend, presult>>

\* proxy.rs:76-86 and 118-142: send() returns
SendReturns(r) ==
    /\ ~(r.kind = "redirect" /\ pstate.issued <= RedirectLimit)
    /\ backend' = r
    /\ CASE r.kind = "response" ->
              /\ ppc' = "read_response_body"
              /\ UNCHANGED presult
         [] r.kind = "connect_error" ->
              /\ ppc' = "done"
              /\ presult' = connect_error_response(pstate.proxy_port)
         [] OTHER ->
              /\ ppc' = "done"
              /\ presult' = Err(502)
    /\ UNCHANGED pstate

ProxySendReturns ==
    /\ ppc = "awaiting"
    /\ \E r \in BackendResults : FollowRedirect(r) \/ SendReturns(r)
    /\ UNCHANGED <<config, preq, outbound, router, request, response,
                   clsVars, mainVars,
                   cliVars, httpsVars, logVars, netVars>>

\* proxy.rs:88-116: resp.bytes() returns, the response is built
ProxyRespond ==
    /\ ppc = "read_response_body"
    /\ IF backend.body = None
       THEN presult' = Err(500)
       ELSE presult' = Ok(hyper_status(backend.status),
                          response_headers(backend.headers),
                          <<"bytes", backend.body[1]>>)
    /\ ppc' = "done"
    /\ UNCHANGED <<config, preq, pstate, outbound, backend, router, request,
                   response, clsVars, mainVars,
                   cliVars, httpsVars, logVars, netVars>>

ProxyNext ==
    \/ ProxyPrepare
    \/ ProxyReadBodyAndSend
    \/ BackendReceive
    \/ ProxySendReturns
    \/ ProxyRespond

SpecProxy == ProxyInit /\ [][ProxyNext]_vars

HopByHopNames ==
    {"connection", "keep-alive", "proxy-authenticate", "proxy-authorization",
     "te", "trailers", "transfer-encoding", "upgrade", "host"}

\* C8: no header named, in any letter case, connection, keep-alive,
\* proxy-authenticate, proxy-authorization, te, trailers, transfer-encoding,
\* upgrade or host goes from the inbound request into the backend request,
\* nor from the backend response into the client response.
C8_NoHopByHopForwarded ==
    /\ outbound # NoRequest =>
          \A i \in 1..Len(preq.wire) :
              Lower(preq.wire[i].name) \in HopByHopNames
              => outbound.headers[Lower(preq.wire[i].name)] = <<>>
    /\ (ppc = "done" /\ backend # NoResponse /\ backend.kind = "response"
            /\ presult.kind = "Ok") =>
          \A i \in 1..Len(backend.wire) :
              Lower(backend.wire[i].name) \in HopByHopNames
              => presult.headers[Lower(backend.wire[i].name)] = <<>>

C8_Witness ==
    /\ ppc = "done"
    /\ presult.kind = "Ok"
    /\ backend.kind = "response"
    /\ backend.headers["transfer-encoding"] # <<>>
    /\ backend.headers["set-cookie"] # <<>>
    /\ presult.headers["set-cookie"] # <<>>

C8_WitnessRequest ==
    /\ outbound # NoRequest
    /\ preq.headers["host"] # <<>>
    /\ preq.headers["x-a"] # <<>>
    /\ outbound.headers["x-a"] # <<>>

\* C9: every inbound header entry with a name that is not hop-by-hop is in
\* the backend request, every backend response entry with a name that is
\* neither hop-by-hop nor one of the three CORS names is in the client
\* response, and entries that share a name stay separate entries.
C9_AllOtherHeadersForwarded ==
    /\ outbound # NoRequest =>
          \A n \in HeaderNames \ HopByHopNames :
              outbound.headers[n] = preq.headers[n]
    /\ (ppc = "done" /\ backend # NoResponse /\ backend.kind = "response"
            /\ presult.kind = "Ok") =>
          \A n \in HeaderNames \ (HopByHopNames \cup CorsNames) :
              presult.headers[n] = backend.headers[n]

\* C10: the backend request has the method, the path and query and the body
\* bytes of the inbound request, and the client response has the status code
\* the backend answered with.
C10_RequestLineBodyStatusPreserved ==
    /\ outbound # NoRequest =>
          /\ outbound.method = preq.method
          /\ outbound.url.path = preq.uri.path
          /\ outbound.url.query = preq.uri.query
          /\ outbound.body = preq.body[1]
    /\ (ppc = "done" /\ backend # NoResponse /\ backend.kind = "response"
            /\ backend.body # None) =>
          /\ presult.kind = "Ok"
          /\ presult.status = backend.status

(***************************************************************************)
(* Spec: main from the resolved site list on, run_single_site,             *)
(* run_multi_sites and the site server tasks                               *)
(***************************************************************************)
MaxSites == 3

SitePorts == {8080, 8081, 8082}
SiteConfigs == [port : SitePorts, https : BOOLEAN]

RECURSIVE SiteLists(_)
SiteLists(n) ==
    IF n = 0 THEN {<<>>}
    ELSE LET shorter == SiteLists(n - 1) IN
         shorter \cup {Append(l, c) : l \in shorter, c \in SiteConfigs}

Running      == [kind |-> "running"]
Exit(code)   == [kind |-> "exit", code |-> code]
MainErr(e)   == [kind |-> "main_err", cause |-> e]
MainOk       == [kind |-> "main_ok"]
\* exit status of the process: process::exit(n) gives n, main returning Err
\* gives 1, main returning Ok gives 0
ExitCode(o)  ==
    CASE o.kind = "exit"     -> o.code
      [] o.kind = "main_err" -> 1
      [] OTHER               -> 0

Pending      == [kind |-> "pending"]
TaskOk       == [kind |-> "Ok"]
TaskErr(e)   == [kind |-> "Err", cause |-> e]
Task(st, r)  == [st |-> st, result |-> r]

\* the conflict loop with the insert left out after the first site
RECURSIVE port_conflict_first_only(_, _, _)
port_conflict_first_only(ss, used_ports, i) ==
    IF i > Len(ss) THEN FALSE
    ELSE IF ss[i].port \in used_ports THEN TRUE
    ELSE port_conflict_first_only(
            ss, IF i = 1 THEN used_ports \cup {ss[i].port} ELSE used_ports,
            i + 1)

\* main.rs:162-169: TRUE when the loop reaches process::exit(1)
RECURSIVE port_conflict(_, _, _)
port_conflict(ss, used_ports, i) ==
    IF i > Len(ss) THEN FALSE
    ELSE IF ss[i].port \in used_ports THEN TRUE
    ELSE port_conflict(ss, used_ports \cup {ss[i].port}, i + 1)

MainInit ==
    /\ mpc = "resolved"
    /\ sites \in SiteLists(MaxSites)
    /\ env \in [ssl : BOOLEAN, host_ok : BOOLEAN]
    /\ tasks = <<>>
    /\ firstDone = 0
    /\ outcome = Running
    /\ IdleClassify /\ IdleRouter /\ IdleProxy /\ IdleCli /\ IdleHttps /\ IdleLog
    /\ IdleNet

\* main.rs:153-156
CheckEmpty ==
    /\ mpc = "resolved"
    /\ IF sites = <<>>
       THEN mpc' = "exited" /\ outcome' = Exit(1)
       ELSE mpc' = "network_info" /\ UNCHANGED outcome
    /\ UNCHANGED <<sites, env, tasks, firstDone, clsVars, routerVars, proxyVars,
                   cliVars, httpsVars, logVars, netVars>>

\* what get_local_ips and get_public_ip hand to display_network_info
NetOutcomes == [local : {"Ok", "Err"}, public : {"Ok", "Err"}]

\* main.rs:484-501, 504: the two lookups return (get_public_ip gives up
\* after 5 s per service)
DetectNetwork ==
    /\ mpc = "network_info"
    /\ net = NoState
    /\ net' \in NetOutcomes
    /\ UNCHANGED <<mainVars, clsVars, routerVars, proxyVars,
                   cliVars, httpsVars, logVars>>

\* display_network_info that gives up the run without a public address
DisplayNetworkInfo_needs_public_ip ==
    /\ mpc = "network_info"
    /\ net # NoState
    /\ IF net.public = "Err"
       THEN mpc' = "exited" /\ outcome' = Exit(1)
       ELSE mpc' = "check_ports" /\ UNCHANGED outcome
    /\ net' = NoState
    /\ UNCHANGED <<sites, env, tasks, firstDone, clsVars, routerVars,
                   proxyVars, cliVars, httpsVars, logVars>>

\* main.rs:159, 480-569: display_network_info logs what the lookups gave
\* and returns; its locals are dropped
DisplayNetworkInfo ==
    /\ mpc = "network_info"
    /\ net # NoState
    /\ mpc' = "check_ports"
    /\ net' = NoState
    /\ UNCHANGED <<sites, env, tasks, firstDone, outcome, clsVars, routerVars,
                   proxyVars, cliVars, httpsVars, logVars>>

\* main.rs:161-177: the conflict check, then the single or multi site branch;
\* run_multi_sites spawns one task per site (main.rs:283-289)
CheckPortsAndRun ==
    /\ mpc = "check_ports"
    /\ IF port_conflict(sites, {}, 1)
       THEN /\ mpc' = "exited"
            /\ outcome' = Exit(1)
            /\ UNCHANGED tasks
       ELSE /\ mpc' = IF Len(sites) = 1 THEN "single" ELSE "select_all"
            /\ tasks' = [i \in 1..Len(sites) |-> Task("created", Pending)]
            /\ UNCHANGED outcome
    /\ UNCHANGED <<sites, env, firstDone, clsVars, routerVars, proxyVars,
                   cliVars, httpsVars, logVars, netVars>>

Finish(i, r) ==
    /\ tasks' = [tasks EXCEPT ![i] = Task("done", r)]
    /\ firstDone' = IF firstDone = 0 THEN i ELSE firstDone

ServerRuns == mpc \in {"single", "select_all"}

\* run_site_server main.rs:313-329 / run_single_site main.rs:237-248:
\* the address is parsed and the listener bound, or the `?` returns the error
TaskBind(i) ==
    /\ ServerRuns
    /\ tasks[i].st = "created"
    /\ IF ~env.host_ok
       THEN Finish(i, TaskErr("addr_parse"))
       ELSE \/ tasks' = [tasks EXCEPT ![i] = Task("bound", Pending)]
               /\ UNCHANGED firstDone
            \/ Finish(i, TaskErr("bind"))
    /\ UNCHANGED <<mpc, sites, env, outcome, clsVars, routerVars, proxyVars,
                   cliVars, httpsVars, logVars, netVars>>

\* main.rs:338-351 / 260-272: the bound listener starts serving; with https,
\* run_https_server needs the ssl feature and a certificate first
TaskServe(i) ==
    /\ ServerRuns
    /\ tasks[i].st = "bound"
    /\ IF sites[i].https
       THEN IF ~env.ssl
            THEN Finish(i, TaskErr("no_ssl"))
            ELSE \/ tasks' = [tasks EXCEPT ![i] = Task("serving", Pending)]
                    /\ UNCHANGED firstDone
                 \/ Finish(i, TaskErr("certificate"))
       ELSE /\ tasks' = [tasks EXCEPT ![i] = Task("serving", Pending)]
            /\ UNCHANGED firstDone
    /\ UNCHANGED <<mpc, sites, env, outcome, clsVars, routerVars, proxyVars,
                   cliVars, httpsVars, logVars, netVars>>

\* an accept loop that notes the error and goes on accepting
TaskAcceptFails_keeps_serving(i) ==
    /\ ServerRuns
    /\ tasks[i].st = "serving"
    /\ sites[i].https
    /\ tasks' = [tasks EXCEPT ![i] = Task("serving", TaskErr("accept"))]
    /\ UNCHANGED <<mpc, sites, env, firstDone, outcome, clsVars, routerVars,
                   proxyVars, cliVars, httpsVars, logVars, netVars>>

\* main.rs:449: `listener.accept().await?` leaves the accept loop
TaskAcceptFails(i) ==
    /\ ServerRuns
    /\ tasks[i].st = "serving"
    /\ sites[i].https
    /\ Finish(i, TaskErr("accept"))
    /\ UNCHANGED <<mpc, sites, env, outcome, clsVars, routerVars, proxyVars,
                   cliVars, httpsVars, logVars, netVars>>

\* run_multi_sites that passes over a site whose port could not be bound
run_outcome_bind_error_ok(result) ==
    CASE result.kind = "Ok"  -> MainOk
      [] result.kind = "Err" -> IF result.cause = "bind" THEN MainOk
                                ELSE MainErr(result.cause)
      [] OTHER               -> MainErr("join")

\* run_multi_sites that reports success whatever the task returned
run_outcome_always_ok(result) == MainOk

\* main.rs:296-309, the match on the joined result
run_outcome(result) ==
    CASE result.kind = "Ok"  -> MainOk
      [] result.kind = "Err" -> MainErr(result.cause)
      [] OTHER               -> MainErr("join")

\* futures select_all: the handles are polled in order, the first one found
\* complete is returned
select_all(handles) ==
    LET index == CHOOSE i \in 1..Len(handles) :
                    /\ handles[i].st = "done"
                    /\ \A j \in 1..(i - 1) : handles[j].st # "done"
    IN  [result |-> handles[index].result, index |-> index]

\* main.rs:294-309 and 176-179: select_all returns, main returns its result
SelectAll ==
    /\ mpc = "select_all"
    /\ \E i \in 1..Len(tasks) : tasks[i].st = "done"
    /\ outcome' = run_outcome(select_all(tasks).result)
    /\ mpc' = "exited"
    /\ UNCHANGED <<sites, env, tasks, firstDone, clsVars, routerVars, proxyVars,
                   cliVars, httpsVars, logVars, netVars>>

\* main.rs:173, 260-275: run_single_site returns its error to main, or
\* leaves with process::exit(1) when https has no ssl feature
SingleSiteReturns ==
    /\ mpc = "single"
    /\ tasks[1].st = "done"
    /\ outcome' = IF tasks[1].result.kind = "Ok" THEN MainOk
                  ELSE IF tasks[1].result.cause = "no_ssl" THEN Exit(1)
                  ELSE MainErr(tasks[1].result.cause)
    /\ mpc' = "exited"
    /\ UNCHANGED <<sites, env, tasks, firstDone, clsVars, routerVars, proxyVars,
                   cliVars, httpsVars, logVars, netVars>>

MainNext ==
    \/ CheckEmpty
    \/ DetectNetwork
    \/ DisplayNetworkInfo
    \/ CheckPortsAndRun
    \/ \E i \in 1..Len(tasks) : TaskBind(i)
    \/ \E i \in 1..Len(tasks) : TaskServe(i)
    \/ \E i \in 1..Len(tasks) : TaskAcceptFails(i)
    \/ SelectAll
    \/ SingleSiteReturns

Spec == MainInit /\ [][MainNext]_vars

\* main runs straight through lines 153-177: display_network_info returns
\* (its lookups have timeouts) and nothing else is awaited before the check
FairSpec ==
    Spec /\ WF_vars(CheckEmpty \/ DetectNetwork \/ DisplayNetworkInfo
                    \/ CheckPortsAndRun)

HasDuplicatePort(ss) ==
    \E i, j \in 1..Len(ss) : i # j /\ ss[i].port = ss[j].port

\* C5: when two sites of the resolved list have the same port, wherever they
\* stand in the list, no site server is started and no listener is bound,
\* and the process ends with a non-zero exit status.
C5_NoPartialStartup ==
    HasDuplicatePort(sites)
    => /\ tasks = <<>>
       /\ mpc \in {"resolved", "network_info", "check_ports", "exited"}
       /\ mpc = "exited" => ExitCode(outcome) # 0

\* C5: that state of affairs holds throughout the run, and the run does
\* reach the non-zero exit.
C5_DuplicatePortsRejected ==
    /\ []C5_NoPartialStartup
    /\ HasDuplicatePort(sites) ~> (mpc = "exited" /\ ExitCode(outcome) # 0)

C5_Witness ==
    /\ mpc = "exited"
    /\ Len(sites) = 3
    /\ sites[1].port # sites[2].port
    /\ sites[2].port = sites[3].port
    /\ outcome = Exit(1)

IsErrorOutcome(o)   == o.kind = "main_err"
IsSuccessOutcome(o) == o.kind = "main_ok"

MultiSiteFinished == mpc = "exited" /\ Len(tasks) > 1
OutcomeOf(i) ==
    /\ tasks[i].result.kind = "Err"
          => outcome = MainErr(tasks[i].result.cause)
    /\ tasks[i].result.kind = "Ok" => IsSuccessOutcome(outcome)
    /\ tasks[i].result.kind \notin {"Ok", "Err"} => IsErrorOutcome(outcome)

BackendAnswered ==
    ppc = "done" /\ backend # NoResponse /\ backend.kind = "response"
    /\ backend.body # None

\* C11: whenever the backend returned a response, the client response has
\* access-control-allow-origin: *, access-control-allow-methods: GET, POST,
\* PUT, DELETE, OPTIONS and access-control-allow-headers: content-type,
\* authorization, each as its only value, whatever the backend sent.
C11_CorsAlwaysOverridden ==
    BackendAnswered
    => /\ presult.kind = "Ok"
       /\ presult.headers["access-control-allow-origin"] = <<V_star>>
       /\ presult.headers["access-control-allow-methods"] = <<V_cors_methods>>
       /\ presult.headers["access-control-allow-headers"] = <<V_cors_headers>>

C11_Witness ==
    /\ BackendAnswered
    /\ backend.headers["access-control-allow-origin"] = <<V_plain, V_other>>
    /\ presult.headers["access-control-allow-origin"] = <<V_star>>

\* C12: when the connection to the backend cannot be established, the
\* forwarder returns a response, not an error: status 502, a JSON body with
\* error "Backend server not available" and a message that contains the
\* configured backend port, and access-control-allow-origin: *.
C12_ConnectFailureIs502Json ==
    (ppc = "done" /\ backend # NoResponse /\ backend.kind = "connect_error")
    => /\ presult.kind = "Ok"
       /\ presult.status = 502
       /\ presult.body[1] = "json"
       /\ presult.body[2].error = "Backend server not available"
       /\ contains(presult.body[2].message, ToDigits(config.proxy_port[1]))
       /\ presult.headers["access-control-allow-origin"] = <<V_star>>

C12_Witness ==
    /\ ppc = "done"
    /\ backend # NoResponse
    /\ backend.kind = "connect_error"
    /\ presult.status = 502

ClientStatus(r) == r.status

\* C13: when the backend call fails for another reason than a connection
\* failure (timeout, malformed response, failure while the response body is
\* read), the client receives status 502.
C13_OtherBackendFailuresAre502 ==
    (ppc = "done" /\ backend # NoResponse
        /\ (\/ backend.kind = "other_error"
            \/ (backend.kind = "response" /\ backend.body = None)))
    => ClientStatus(presult) = 502

\* outbound backend requests issued so far for the inbound request
Issued == IF "issued" \in DOMAIN pstate THEN pstate.issued ELSE 0

IssuedOrigins == IF "origins" \in DOMAIN pstate THEN pstate.origins ELSE {}

\* C14: for an inbound request handed to the forwarder of a site with a
\* backend port, exactly one outbound backend request is issued: never more
\* than one, and not zero once the forwarder has returned.
C14_ExactlyOneOutboundRequest ==
    (config # NoConfig /\ config.proxy_port # None)
    => /\ Issued <= 1
       /\ ppc = "done" => Issued = 1

\* C15: every outbound backend request targets
\* http://127.0.0.1:{backend_port}{path_and_query} with the configured port.
C15_TargetIsLoopbackBackend ==
    /\ outbound # NoRequest =>
          /\ OriginOf(outbound.url) = BackendOrigin(config.proxy_port[1])
          /\ path_and_query([path  |-> outbound.url.path,
                             query |-> outbound.url.query])
                = path_and_query(preq.uri)
    /\ \A o \in IssuedOrigins : o = BackendOrigin(config.proxy_port[1])

\* what the site root holds for a request path
RootHasFile(p) == p \in config.root_dir
RootHasDir(p) ==
    p \notin config.root_dir /\ (p = S_slash \/ IsDir(config.root_dir, p))
IndexOf(p) == StripSlash(p) \o S_index_html
NothingMatches(p) ==
    /\ ~RootHasFile(p)
    /\ ~RootHasDir(p) \/ (p[Len(p)] = "/" /\ IndexOf(p) \notin config.root_dir)

StaticOnBackendSite ==
    /\ response # NoResponse
    /\ config.proxy_port # None
    /\ classify(request.uri) = "Static"

\* C16 as stated: on a site with a backend every request whose path
\* classifies as Static is answered by the static responder: the file when
\* one matches, the index document for a directory, 404 when nothing
\* matches, and no backend request.
C16_StaticPathsAnsweredFromRoot ==
    StaticOnBackendSite
    => /\ response.handler = "ServeDir"
       /\ RootHasFile(request.uri.path)
            => (response.status = 200
                /\ response.body = <<"file", request.uri.path>>)
       /\ (RootHasDir(request.uri.path)
            /\ IndexOf(request.uri.path) \in config.root_dir)
            => (response.status = 200
                /\ response.body = <<"file", IndexOf(request.uri.path)>>)
       /\ NothingMatches(request.uri.path) => response.status = 404

\* C16: on a site with a backend every request whose path classifies as
\* Static and is not /health or /healthz is answered by the static
\* responder and never by the forwarder: GET gets the file when one matches,
\* the index document for a directory path ending in "/", a redirect (307)
\* for a directory path without the "/", 404 when nothing matches; HEAD gets
\* the same status without content; any other method gets 405.
C16_StaticPathsExceptHealthAnsweredFromRoot ==
    (StaticOnBackendSite /\ request.uri.path \notin HealthPaths)
    => LET p == request.uri.path IN
       /\ response.handler = "ServeDir"
       /\ request.method \notin {"GET", "HEAD"} => response.status = 405
       /\ request.method \in {"GET", "HEAD"}
            => /\ RootHasFile(p) => response.status = 200
               /\ (RootHasFile(p) /\ request.method = "GET")
                    => response.body = <<"file", p>>
               /\ (RootHasDir(p) /\ p[Len(p)] # "/") => response.status = 307
               /\ (RootHasDir(p) /\ p[Len(p)] = "/"
                        /\ IndexOf(p) \in config.root_dir)
                    => response.status = 200
               /\ (RootHasDir(p) /\ p[Len(p)] = "/"
                        /\ IndexOf(p) \in config.root_dir
                        /\ request.method = "GET")
                    => response.body = <<"file", IndexOf(p)>>
               /\ NothingMatches(p) => response.status = 404

C16_Witness ==
    /\ StaticOnBackendSite
    /\ request.method = "GET"
    /\ request.uri.path = S_docsdir
    /\ response.handler = "ServeDir"
    /\ response.body = <<"file", S_docs_index>>

\* C17: on a site without a backend every request other than /health and
\* /healthz is answered by the static responder, whatever its path, and the
\* forwarder is never invoked.
C17_NoBackendMeansStaticOnly ==
    (response # NoResponse /\ config.proxy_port = None)
    => /\ response.handler \notin {"proxy_request", "proxy_handler"}
       /\ request.uri.path \notin HealthPaths
            => response.handler = "ServeDir"

C17_Witness ==
    /\ response # NoResponse
    /\ config.proxy_port = None
    /\ request.method = "GET"
    /\ request.uri.path = S_api_users
    /\ response.handler = "ServeDir"
    /\ response.status = 200

\* the orchestrator is woken when a join handle completes; a single site's
\* error is returned by run_single_site at once
FairRunSpec ==
    FairSpec /\ WF_vars(SelectAll) /\ WF_vars(SingleSiteReturns)

BindFailed(i) == tasks[i].result = TaskErr("bind")

BindFailureIsFinal ==
    \A i \in DOMAIN tasks : BindFailed(i) => tasks'[i] = tasks[i]

\* C19: a site whose port cannot be bound never reaches Serving, and the
\* process ends with a non-zero status, in single-site mode and in
\* multi-site mode, also while other sites are bound and serving.
C19_BindFailureEndsRun ==
    /\ [][BindFailureIsFinal]_vars
    /\ [](\A i \in DOMAIN tasks : BindFailed(i) => tasks[i].st = "done")
    /\ (\E i \in DOMAIN tasks : BindFailed(i))
          ~> (mpc = "exited" /\ ExitCode(outcome) # 0)

C19_Witness ==
    /\ mpc = "exited"
    /\ ExitCode(outcome) # 0
    /\ Len(tasks) = 3
    /\ BindFailed(3)
    /\ tasks[1].st = "serving"
    /\ tasks[2].st = "bound"

(***************************************************************************)
(* run_https_server (main.rs:412-474): the certificate, then the accept    *)
(* loop; every accepted connection gets its own spawned task, which does    *)
(* the TLS handshake and then serves requests on the connection.            *)
(***************************************************************************)
MaxConns  == 3
MaxServed == 2

Accepting       == [st |-> "accepting"]
ServerFailed(e) == [st |-> "failed", cause |-> e]
Conn(st, n)     == [st |-> st, served |-> n]

HttpsInit ==
    /\ srv = [st |-> "certificate"]
    /\ conns = <<>>
    /\ IdleClassify /\ IdleRouter /\ IdleProxy /\ IdleMain /\ IdleCli /\ IdleLog
    /\ IdleNet

\* main.rs:423-443: certificate, key and rustls config, each with `?`
MakeAcceptor ==
    /\ srv.st = "certificate"
    /\ srv' \in {Accepting, ServerFailed("certificate")}
    /\ UNCHANGED <<conns, clsVars, routerVars, proxyVars, mainVars, cliVars, logVars, netVars>>

\* main.rs:449-453: accept() returns a stream, a task is spawned for it
Accept ==
    /\ srv.st = "accepting"
    /\ Len(conns) < MaxConns
    /\ conns' = Append(conns, Conn("handshake", 0))
    /\ UNCHANGED <<srv, clsVars, routerVars, proxyVars, mainVars, cliVars, logVars, netVars>>

\* main.rs:449: `listener.accept().await?` returns the error
AcceptFails ==
    /\ srv.st = "accepting"
    /\ srv' = ServerFailed("accept")
    /\ UNCHANGED <<conns, clsVars, routerVars, proxyVars, mainVars, cliVars, logVars, netVars>>

\* main.rs:454-455: the handshake succeeds
HandshakeOk(c) ==
    /\ conns[c].st = "handshake"
    /\ conns' = [conns EXCEPT ![c] = Conn("established", 0)]
    /\ UNCHANGED <<srv, clsVars, routerVars, proxyVars, mainVars, cliVars, logVars, netVars>>

\* the handshake awaited in the accept loop itself, its error returned
HandshakeFails_in_accept_loop(c) ==
    /\ conns[c].st = "handshake"
    /\ conns' = [conns EXCEPT ![c] = Conn("tls_failed", 0)]
    /\ srv' = ServerFailed("handshake")
    /\ UNCHANGED <<clsVars, routerVars, proxyVars, mainVars, cliVars, logVars, netVars>>

\* main.rs:456-459: the handshake fails, the task logs it and returns
HandshakeFails(c) ==
    /\ conns[c].st = "handshake"
    /\ conns' = [conns EXCEPT ![c] = Conn("tls_failed", 0)]
    /\ UNCHANGED <<srv, clsVars, routerVars, proxyVars, mainVars, cliVars, logVars, netVars>>

\* main.rs:462-468: one request of the connection goes through the router
ServeRequest(c) ==
    /\ conns[c].st = "established"
    /\ conns[c].served < MaxServed
    /\ conns' = [conns EXCEPT ![c].served = @ + 1]
    /\ UNCHANGED <<srv, clsVars, routerVars, proxyVars, mainVars, cliVars, logVars, netVars>>

\* main.rs:466-471: serve_connection returns, with or without an error
ConnectionEnds(c) ==
    /\ conns[c].st = "established"
    /\ conns' = [conns EXCEPT ![c].st = "closed"]
    /\ UNCHANGED <<srv, clsVars, routerVars, proxyVars, mainVars, cliVars, logVars, netVars>>

HttpsNext ==
    \/ MakeAcceptor
    \/ Accept
    \/ AcceptFails
    \/ \E c \in 1..Len(conns) : HandshakeOk(c)
    \/ \E c \in 1..Len(conns) : HandshakeFails(c)
    \/ \E c \in 1..Len(conns) : ServeRequest(c)
    \/ \E c \in 1..Len(conns) : ConnectionEnds(c)

SpecHttps == HttpsInit /\ [][HttpsNext]_vars

HandshakeFailsNow(c) ==
    conns[c].st = "handshake" /\ conns'[c].st = "tls_failed"

\* the server accepts and the open connections serve as before
ServesAsBefore ==
    /\ srv.st = "accepting" /\ Len(conns) < MaxConns => ENABLED Accept
    /\ \A d \in DOMAIN conns :
          (conns[d].st = "established" /\ conns[d].served < MaxServed)
          => ENABLED ServeRequest(d)

\* C18: a failed TLS handshake ends only the connection it happened on; the
\* site server stays where it was and goes on accepting connections and
\* serving the other ones.
C18_HandshakeFailureEndsOnlyThatConnection ==
    /\ [][\A c \in DOMAIN conns :
            HandshakeFailsNow(c)
            => /\ srv' = srv
               /\ \A d \in DOMAIN conns \ {c} : conns'[d] = conns[d]]_vars
    /\ []((\E c \in DOMAIN conns : conns[c].st = "tls_failed")
            => /\ srv.st = "failed" => srv.cause = "accept"
               /\ ServesAsBefore)

C18_Witness ==
    /\ srv.st = "accepting"
    /\ Len(conns) = 3
    /\ conns[1].st = "established" /\ conns[1].served = 1
    /\ conns[2].st = "tls_failed"
    /\ conns[3].st = "handshake"

(***************************************************************************)
(* From the command line to the resolved site list: Cli::parse with        *)
(* parse_site_config as the value parser of --site (main.rs:70-109, 148),  *)
(* then resolve_sites (main.rs:182-234), then the rest of main.             *)
(***************************************************************************)
MaxCliSites == 2

\* what the file system holds at the path given as a root
RootKinds == {"dir", "file", "missing"}
CliSites  == [root : RootKinds, port : SitePorts, https : BOOLEAN]
\* --port has default_value_t = 8080
DefaultPort == 8080

RECURSIVE CliSiteLists(_)
CliSiteLists(n) ==
    IF n = 0 THEN {<<>>}
    ELSE LET shorter == CliSiteLists(n - 1) IN
         shorter \cup {Append(l, c) : l \in shorter, c \in CliSites}

\* the file named by --config: unreadable (missing, not UTF-8, not parsable)
\* or holding a list of sites
ConfigFiles ==
    {[readable |-> TRUE, sites |-> l] : l \in CliSiteLists(MaxCliSites)}
    \cup {[readable |-> FALSE, sites |-> <<>>]}

\* --config conflicts with --root and --site; --root and --site may both be
\* given
CliInputs ==
    {[config |-> Some(cf), site |-> <<>>, root |-> None] : cf \in ConfigFiles}
    \cup {[config |-> None, site |-> l, root |-> r] :
            l \in CliSiteLists(MaxCliSites),
            r \in {None} \cup {Some(k) : k \in RootKinds}}

\* std::path::Path::exists and is_dir
exists(root) == root # "missing"
is_dir(root) == root = "dir"

\* main.rs:70-109 for an argument of the right format: TRUE stands for Ok
parse_site_config(e) == exists(e.root)

\* main.rs:226-234: TRUE stands for Ok(())
validate_directory(root) ==
    IF ~exists(root) THEN FALSE
    ELSE IF ~is_dir(root) THEN FALSE
    ELSE TRUE

Resolved(l)   == [ok |-> TRUE, sites |-> l]
ResolveFailed == [ok |-> FALSE]

\* main.rs:204-224
load_sites_from_config(cf) ==
    IF ~cf.readable THEN ResolveFailed
    ELSE IF \E i \in 1..Len(cf.sites) : ~validate_directory(cf.sites[i].root)
    THEN ResolveFailed
    ELSE Resolved(cf.sites)

\* main.rs:182-202
resolve_sites(c) ==
    IF c.config # None THEN load_sites_from_config(c.config[1])
    ELSE IF c.site # <<>> THEN Resolved(c.site)
    ELSE IF c.root # None
    THEN IF validate_directory(c.root[1])
         THEN Resolved(<<[root |-> c.root[1], port |-> DefaultPort,
                          https |-> FALSE]>>)
         ELSE ResolveFailed
    ELSE Resolved(<<>>)

ResolveInit ==
    /\ mpc = "cli"
    /\ cli \in CliInputs
    /\ sites = <<>>
    /\ env = [ssl |-> TRUE, host_ok |-> TRUE]
    /\ tasks = <<>>
    /\ firstDone = 0
    /\ outcome = Running
    /\ IdleClassify /\ IdleRouter /\ IdleProxy /\ IdleHttps /\ IdleLog
    /\ IdleNet

\* main.rs:148: clap runs the value parser on every --site argument and
\* leaves with status 2 when one is refused
ParseCli ==
    /\ mpc = "cli"
    /\ IF \E i \in 1..Len(cli.site) : ~parse_site_config(cli.site[i])
       THEN mpc' = "exited" /\ outcome' = Exit(2)
       ELSE mpc' = "parsed" /\ UNCHANGED outcome
    /\ UNCHANGED <<sites, env, tasks, firstDone, cli, clsVars, routerVars,
                   proxyVars, httpsVars, logVars, netVars>>

\* main.rs:151: `resolve_sites(&cli).await?`
ResolveSites ==
    /\ mpc = "parsed"
    /\ LET r == resolve_sites(cli) IN
       IF r.ok
       THEN mpc' = "resolved" /\ sites' = r.sites /\ UNCHANGED outcome
       ELSE mpc' = "exited" /\ outcome' = MainErr("resolve")
            /\ UNCHANGED sites
    /\ UNCHANGED <<env, tasks, firstDone, cli, clsVars, routerVars,
                   proxyVars, httpsVars, logVars, netVars>>

ResolveNext == ParseCli \/ ResolveSites \/ MainNext

SpecResolve == ResolveInit /\ [][ResolveNext]_vars

\* C20: every site for which a server is started has a root that exists
\* and is a directory; a missing or non-directory root is rejected before
\* any server starts, whichever way the site was supplied.
C20_StartedSitesHaveDirectoryRoots ==
    \A i \in DOMAIN tasks : is_dir(sites[i].root)

(***************************************************************************)
(* SpecDecide: the fallback closure of main.rs:370-380 deciding one        *)
(* request after the other, on sites with a backend; log keeps what was    *)
(* decided and, for Proxy, the target proxy_request builds (proxy.rs:28-33,*)
(* 71-72).                                                                  *)
(***************************************************************************)
S_q_api == <<"a", "=", "/", "a", "p", "i", "/">>
S_q_css == <<"f", "=", "x">> \o E_css

DecidePaths   == {<<>>, S_slash, S_app_items, S_up_path}
DecideQueries == {None, Some(S_q_api), Some(S_q_css)}
DecideUris    == {Uri(p, q) : p \in DecidePaths, q \in DecideQueries}
DecideConfigs ==
    {[root_dir |-> r, proxy_port |-> Some(BackendPort)] :
        r \in {{}, {S_app_items}}}

ForwardTarget(cfg, u) ==
    UrlParse(proxy_url(cfg.proxy_port[1], path_and_query(u)))

Decided(cfg, u, dec) ==
    [path     |-> u.path,
     query    |-> u.query,
     decision |-> dec,
     target   |-> IF dec = "Proxy" THEN Some(ForwardTarget(cfg, u)) ELSE None]

DecideInit ==
    /\ config \in DecideConfigs
    /\ uri \in DecideUris
    /\ decision = "none"
    /\ log = {}
    /\ router = NoRouter /\ request = NoRequest /\ response = NoResponse
    /\ IdleProxy /\ IdleMain /\ IdleCli /\ IdleHttps /\ IdleNet

\* main.rs:371-374: `if should_proxy(&uri)` on the request at hand
Decide ==
    /\ decision = "none"
    /\ decision' = classify(uri)
    /\ log' = log \cup {Decided(config, uri, classify(uri))}
    /\ UNCHANGED <<uri, config, router, request, response, proxyVars,
                   mainVars, cliVars, httpsVars, netVars>>

\* the next request arrives, at this site or at another one of the run
NextRequest ==
    /\ decision # "none"
    /\ uri' \in DecideUris
    /\ config' \in DecideConfigs
    /\ decision' = "none"
    /\ UNCHANGED <<log, router, request, response, proxyVars, mainVars,
                   cliVars, httpsVars, netVars>>

DecideNext == Decide \/ NextRequest

SpecDecide == DecideInit /\ [][DecideNext]_vars

C27_QueryNeverDecidesTargetKeepsIt ==
    /\ \A a, b \in log :
          (a.path = b.path /\ a.query # b.query) => a.decision = b.decision
    /\ \A e \in log :
          e.decision = "Proxy"
          => /\ e.target[1].ok
             /\ e.target[1].path = e.path
             /\ e.target[1].query = e.query

BodyReadFails == ppc = "read_body" /\ preq.body = None

\* C24: when reading the inbound body fails, the forwarder answers 400 and
\* issues no backend request.
C24_BodyReadFailureIs400 ==
    /\ [][BodyReadFails
            => /\ ppc' = "done"
               /\ presult' = Err(400)
               /\ outbound' = NoRequest
               /\ Issued' = 0]_vars
    /\ []((ppc = "done" /\ presult = Err(400))
            => (Issued = 0 /\ outbound = NoRequest /\ backend = NoResponse))

C24_Witness ==
    /\ ppc = "done"
    /\ presult = Err(400)
    /\ config.proxy_port = Some(BackendPort)
    /\ Issued = 0

DiscoveryFailed ==
    net # NoState /\ (net.local = "Err" \/ net.public = "Err")

\* C25: whatever the network discovery finds, the site list, the ports and
\* the build stay as they were, nothing of the outcome is kept once
\* display_network_info has returned, the servers started are those of the
\* site list, and a failed discovery is followed by the start of the
\* servers.
C25_DiscoveryChangesNothing ==
    /\ [][mpc = "network_info"
            => /\ sites' = sites /\ env' = env /\ tasks' = tasks
               /\ outcome' = outcome
               /\ mpc' \in {"network_info", "check_ports"}]_vars
    /\ [](mpc # "network_info" => net = NoState)
    /\ [](tasks # <<>>
            => Len(tasks) = Len(sites) /\ ~port_conflict(sites, {}, 1))
    /\ (DiscoveryFailed /\ ~port_conflict(sites, {}, 1)) ~> (tasks # <<>>)

C25_Witness ==
    /\ mpc = "network_info"
    /\ net # NoState
    /\ net.local = "Err" /\ net.public = "Err"
    /\ Len(sites) = 2
    /\ ~port_conflict(sites, {}, 1)

(***************************************************************************)
(* get_local_ips (ip_detection.rs:96-147).  An address is its sequence of  *)
(* octets (IPv4) or segments (IPv6); IpAddr orders V4 before V6 and then   *)
(* by these numbers.                                                        *)
(***************************************************************************)
MaxIfaces == 2

Ip_unspecified  == <<0, 0, 0, 0>>
Ip_loopback     == <<127, 0, 0, 1>>
Ip_multicast    == <<224, 0, 0, 1>>
Ip_lan          == <<10, 0, 0, 5>>
Ip_fallback     == <<192, 168, 1, 100>>
Ip6_unspecified == <<0, 0, 0, 0, 0, 0, 0, 0>>
Ip6_loopback    == <<0, 0, 0, 0, 0, 0, 0, 1>>
Ip6_multicast   == <<65282, 0, 0, 0, 0, 0, 0, 1>>
Ip6_link        == <<65152, 0, 0, 0, 0, 0, 0, 1>>

IpAddrs ==
    {Ip_unspecified, Ip_loopback, Ip_multicast, Ip_lan, Ip_fallback,
     Ip6_unspecified, Ip6_loopback, Ip6_multicast, Ip6_link}

IsV4(ip) == Len(ip) = 4

\* Ipv4Addr::is_loopback, is_multicast; Ipv6Addr::is_loopback, is_multicast
is_loopback(ip) ==
    IF IsV4(ip) THEN ip[1] = 127 ELSE ip = Ip6_loopback
is_multicast(ip) ==
    IF IsV4(ip) THEN ip[1] >= 224 /\ ip[1] <= 239 ELSE ip[1] >= 65280

\* the derived Ord of IpAddr
IpLess(a, b) ==
    \/ Len(a) < Len(b)
    \/ /\ Len(a) = Len(b)
       /\ \E k \in 1..Len(a) :
             /\ a[k] < b[k]
             /\ \A j \in 1..(k - 1) : a[j] = b[j]

\* Vec::sort
RECURSIVE SortIps(_)
SortIps(l) ==
    IF l = <<>> THEN <<>>
    ELSE LET m == CHOOSE i \in 1..Len(l) :
                     \A j \in 1..Len(l) : ~IpLess(l[j], l[i])
         IN  <<l[m]>> \o SortIps(SubSeq(l, 1, m - 1) \o SubSeq(l, m + 1, Len(l)))

\* Vec::dedup: of equal neighbours the first stays
RECURSIVE Dedup(_)
Dedup(l) ==
    IF Len(l) < 2 THEN l
    ELSE IF l[1] = l[2] THEN Dedup(Tail(l))
    ELSE <<l[1]>> \o Dedup(Tail(l))

\* ip_detection.rs:127-137
keep_ip(ip) ==
    IF IsV4(ip)
    THEN ~is_loopback(ip) /\ ~is_multicast(ip) /\ ip # Ip_unspecified
    ELSE ~is_loopback(ip) /\ ~is_multicast(ip)

RECURSIVE Filter(_)
Filter(l) ==
    IF l = <<>> THEN <<>>
    ELSE IF keep_ip(Head(l)) THEN <<Head(l)>> \o Filter(Tail(l))
    ELSE Filter(Tail(l))

RECURSIVE IpLists(_)
IpLists(n) ==
    IF n = 0 THEN {<<>>}
    ELSE LET shorter == IpLists(n - 1) IN
         shorter \cup {Append(l, ip) : l \in shorter, ip \in IpAddrs}

\* what the UDP socket reports, if anything, and what get_network_interfaces
\* returns
UdpResults   == {None} \cup {Some(ip) : ip \in IpAddrs}
IfaceResults ==
    {[ok |-> TRUE, ips |-> l] : l \in IpLists(MaxIfaces)}
    \cup {[ok |-> FALSE, ips |-> <<>>]}

\* ip_detection.rs:99-118
Detected(udp, ifaces) ==
    (IF udp = None THEN <<>> ELSE <<udp[1]>>)
    \o (IF ifaces.ok THEN ifaces.ips ELSE <<>>)

\* get_local_ips with the sort left out before dedup
get_local_ips_unsorted(udp, ifaces) ==
    LET filtered == Filter(Dedup(Detected(udp, ifaces)))
    IN  IF filtered = <<>> THEN [ok |-> TRUE, ips |-> <<Ip_fallback>>]
        ELSE [ok |-> TRUE, ips |-> filtered]

\* ip_detection.rs:96-147
get_local_ips(udp, ifaces) ==
    LET filtered == Filter(Dedup(SortIps(Detected(udp, ifaces))))
    IN  IF filtered = <<>> THEN [ok |-> TRUE, ips |-> <<Ip_fallback>>]
        ELSE [ok |-> TRUE, ips |-> filtered]

LocalIpsInit ==
    /\ net \in {[udp |-> u, ifaces |-> f, result |-> NoState] :
                    u \in UdpResults, f \in IfaceResults}
    /\ IdleClassify /\ IdleRouter /\ IdleProxy /\ IdleMain /\ IdleCli
    /\ IdleHttps /\ IdleLog

GetLocalIps ==
    /\ net.result = NoState
    /\ net' = [net EXCEPT !.result = get_local_ips(net.udp, net.ifaces)]
    /\ UNCHANGED <<clsVars, routerVars, proxyVars, mainVars, cliVars,
                   httpsVars, logVars>>

LocalIpsNext == GetLocalIps

SpecLocalIps == LocalIpsInit /\ [][LocalIpsNext]_vars

Elements(l) == {l[i] : i \in 1..Len(l)}

\* C29: when get_local_ips returns Ok the list is not empty; it holds the
\* detected addresses that are not loopback, multicast or 0.0.0.0, each
\* once, and when there is none it is the single address 192.168.1.100.
C29_LocalIpsNonEmptyFilteredDistinct ==
    (net.result # NoState /\ net.result.ok)
    => LET ips  == net.result.ips
           good == {ip \in Elements(Detected(net.udp, net.ifaces)) :
                        ~is_loopback(ip) /\ ~is_multicast(ip)
                        /\ ip # Ip_unspecified}
       IN  /\ ips # <<>>
           /\ \A i, j \in 1..Len(ips) : i # j => ips[i] # ips[j]
           /\ good # {} => Elements(ips) = good
           /\ good = {} => ips = <<Ip_fallback>>

C29_Witness ==
    /\ net.result # NoState
    /\ net.udp = Some(Ip_lan)
    /\ net.ifaces.ok
    /\ net.ifaces.ips = <<Ip_loopback, Ip_lan>>
    /\ net.result.ips = <<Ip_lan>>

(***************************************************************************)
(* The certificate of a TLS site (ssl.rs:10-47, main.rs:423) and clients   *)
(* that trust it and check it as a TLS client does: the name connected to  *)
(* is among the subject alternative names, the day lies in the validity.   *)
(***************************************************************************)
MaxClients == 2

Dns(name) == [type |-> "DnsName", value |-> name]
Ip(addr)  == [type |-> "IpAddress", value |-> addr]

Ymd(y, m, d) == y * 10000 + m * 100 + d

\* --host must parse as the IP part of a SocketAddr (main.rs:247, 326)
CertHosts == {"0.0.0.0", "127.0.0.1", "192.168.1.5"}
CertDays  == {Ymd(2023, 12, 31), Ymd(2025, 6, 15), Ymd(2026, 1, 1)}
\* what a client connects as
ClientNames == {Dns("localhost"), Ip("127.0.0.1"), Ip("192.168.1.5")}

\* ssl.rs:10-47
create_self_signed_cert(hostname) ==
    [common_name       |-> hostname,
     subject_alt_names |-> {Dns(hostname), Dns("localhost"),
                            Ip("127.0.0.1"), Ip("::1")},
     not_before        |-> Ymd(2024, 1, 1),
     not_after         |-> Ymd(2025, 12, 31)]

\* certificate verification by a client that has the certificate as trusted
ClientAccepts(cert, name, today) ==
    /\ name \in cert.subject_alt_names
    /\ cert.not_before <= today
    /\ today <= cert.not_after

CertInit ==
    /\ env \in [host : CertHosts, today : CertDays]
    /\ srv = [st |-> "certificate"]
    /\ conns = <<>>
    /\ mpc = "idle" /\ sites = <<>> /\ tasks = <<>> /\ firstDone = 0
    /\ outcome = Running
    /\ IdleClassify /\ IdleRouter /\ IdleProxy /\ IdleCli /\ IdleLog
    /\ IdleNet

\* main.rs:423: `create_self_signed_cert("localhost")?`
CreateCert ==
    /\ srv.st = "certificate"
    /\ srv' = [st |-> "accepting", cert |-> create_self_signed_cert("localhost")]
    /\ UNCHANGED <<conns, clsVars, routerVars, proxyVars, mainVars, cliVars,
                   logVars, netVars>>

\* a client opens a connection, naming the server as it knows it
ClientConnects(name) ==
    /\ srv.st = "accepting"
    /\ Len(conns) < MaxClients
    /\ conns' = Append(conns, [name |-> name, st |-> "handshake"])
    /\ UNCHANGED <<srv, clsVars, routerVars, proxyVars, mainVars, cliVars,
                   logVars, netVars>>

\* main.rs:454-460: tls_acceptor.accept returns as the client decides
ClientHandshake(c) ==
    /\ conns[c].st = "handshake"
    /\ conns' = [conns EXCEPT ![c].st =
                    IF ClientAccepts(srv.cert, conns[c].name, env.today)
                    THEN "established" ELSE "tls_failed"]
    /\ UNCHANGED <<srv, clsVars, routerVars, proxyVars, mainVars, cliVars,
                   logVars, netVars>>

CertNext ==
    \/ CreateCert
    \/ \E name \in ClientNames : ClientConnects(name)
    \/ \E c \in 1..Len(conns) : ClientHandshake(c)

SpecCert == CertInit /\ [][CertNext]_vars

\* C26: the certificate a TLS site presents covers localhost, 127.0.0.1,
\* ::1 and the configured host, and a client that trusts it completes the
\* handshake when it connects as localhost and when it connects to
\* 127.0.0.1.
C26_CertificateCoversLocalNames ==
    /\ srv.st = "accepting"
          => {Dns("localhost"), Ip("127.0.0.1"), Ip("::1"), Ip(env.host)}
                \subseteq srv.cert.subject_alt_names
    /\ \A c \in 1..Len(conns) :
          conns[c].name \in {Dns("localhost"), Ip("127.0.0.1")}
          => conns[c].st \in {"handshake", "established"}

(***************************************************************************)
(* The site servers of a run together with the connections they accept:    *)
(* MainNext runs the servers, each accepted connection is a task of its    *)
(* own (tokio::spawn, main.rs:453; axum::serve, main.rs:271, 349) that     *)
(* lives until the process ends.                                           *)
(***************************************************************************)
MaxServeSites == 2
MaxOpen       == 2

\* site lists of 1..MaxServeSites sites on distinct ports
ServeSiteLists ==
    {l \in SiteLists(MaxServeSites) :
        /\ l # <<>>
        /\ \A i \in 1..Len(l) : l[i].port = 8080 + (i - 1)}

SiteConn(i, st) == [site |-> i, st |-> st]

ServeInit ==
    /\ mpc = "resolved"
    /\ sites \in ServeSiteLists
    /\ env = [ssl |-> TRUE, host_ok |-> TRUE]
    /\ tasks = <<>>
    /\ firstDone = 0
    /\ outcome = Running
    /\ srv = NoState
    /\ conns = <<>>
    /\ IdleClassify /\ IdleRouter /\ IdleProxy /\ IdleCli /\ IdleLog
    /\ IdleNet

ConnFrame ==
    UNCHANGED <<srv, clsVars, routerVars, proxyVars, mainVars, cliVars,
                logVars, netVars>>

\* an accept loop that takes the next connection only when no handshake of
\* the site is pending
SiteAccept_after_handshake(i) ==
    /\ ServerRuns
    /\ tasks[i].st = "serving"
    /\ \A c \in 1..Len(conns) :
          conns[c].site = i => conns[c].st # "handshake"
    /\ Len(conns) < MaxOpen
    /\ conns' = Append(conns,
                  SiteConn(i, IF sites[i].https THEN "handshake"
                              ELSE "established"))
    /\ ConnFrame

\* main.rs:449-453: listener.accept() returns a stream and the connection
\* task is spawned; axum::serve (main.rs:271, 349) does the same without TLS
SiteAccept(i) ==
    /\ ServerRuns
    /\ tasks[i].st = "serving"
    /\ Len(conns) < MaxOpen
    /\ conns' = Append(conns,
                  SiteConn(i, IF sites[i].https THEN "handshake"
                              ELSE "established"))
    /\ ConnFrame

\* main.rs:454-455
TlsHandshakeOk(c) ==
    /\ ServerRuns
    /\ conns[c].st = "handshake"
    /\ conns' = [conns EXCEPT ![c].st = "established"]
    /\ ConnFrame

\* main.rs:456-459: the error is logged and the connection task returns
TlsHandshakeFails(c) ==
    /\ ServerRuns
    /\ conns[c].st = "handshake"
    /\ conns' = [conns EXCEPT ![c].st = "tls_failed"]
    /\ ConnFrame

\* main.rs:462-464: a request is read and handed to app.oneshot(req); the
\* task waits for the router's future (file system, backend round-trip)
RequestArrives(c) ==
    /\ ServerRuns
    /\ conns[c].st \in {"established", "answered"}
    /\ conns' = [conns EXCEPT ![c].st = "in_service"]
    /\ ConnFrame

\* main.rs:466-468: the future completes and the response is written
RequestAnswered(c) ==
    /\ ServerRuns
    /\ conns[c].st = "in_service"
    /\ conns' = [conns EXCEPT ![c].st = "answered"]
    /\ ConnFrame

ServeNext ==
    \/ MainNext
    \/ \E i \in 1..Len(tasks) : SiteAccept(i)
    \/ \E c \in 1..Len(conns) : TlsHandshakeOk(c)
    \/ \E c \in 1..Len(conns) : TlsHandshakeFails(c)
    \/ \E c \in 1..Len(conns) : RequestArrives(c)
    \/ \E c \in 1..Len(conns) : RequestAnswered(c)

SpecServe == ServeInit /\ [][ServeNext]_vars

\* main runs straight through to the servers (see FairSpec), and a finished
\* site task wakes select_all or returns to main
FairSpecServe ==
    /\ SpecServe
    /\ WF_vars(CheckEmpty \/ DetectNetwork \/ DisplayNetworkInfo
               \/ CheckPortsAndRun)
    /\ WF_vars(SelectAll)
    /\ WF_vars(SingleSiteReturns)

\* Created, Bound, Serving, then Stopped or Failed
StageOf(t) ==
    CASE t.st = "created"  -> "Created"
      [] t.st = "bound"    -> "Bound"
      [] t.st = "serving"  -> "Serving"
      [] t.result.kind = "Ok" -> "Stopped"
      [] OTHER             -> "Failed"

StageRank(stage) ==
    CASE stage = "Created" -> 0
      [] stage = "Bound"   -> 1
      [] stage = "Serving" -> 2
      [] OTHER             -> 3

\* this step accepts a connection of site i / answers a request of site i
AcceptsNow(i) ==
    Len(conns') > Len(conns) /\ conns'[Len(conns')].site = i
AnswersNow(i) ==
    \E c \in 1..Len(conns) :
        /\ conns[c].site = i
        /\ conns[c].st = "in_service"
        /\ conns'[c].st = "answered"

\* C22: each site server moves only forward along Created, Bound, Serving,
\* Stopped or Failed; it accepts a connection only while Serving (never
\* before its listener is bound), and once Stopped or Failed it accepts no
\* connection and answers no request any more.
C22_SiteServerLifecycle ==
    [][\A i \in 1..Len(tasks) :
          /\ StageRank(StageOf(tasks'[i])) >= StageRank(StageOf(tasks[i]))
          /\ StageOf(tasks[i]) \in {"Stopped", "Failed"}
                => StageOf(tasks'[i]) = StageOf(tasks[i])
          /\ AcceptsNow(i) => StageOf(tasks[i]) = "Serving"
          /\ StageOf(tasks[i]) \in {"Stopped", "Failed"}
                => ~AcceptsNow(i) /\ ~AnswersNow(i)]_vars

\* a task waiting inside the handshake or inside the router's future
Suspended(c) == conns[c].st \in {"handshake", "in_service"}

\* every step that connection d is waiting for can be taken
CanProceed(d) ==
    /\ conns[d].st = "handshake" => ENABLED TlsHandshakeOk(d)
    /\ conns[d].st \in {"established", "answered"}
          => ENABLED RequestArrives(d)
    /\ conns[d].st = "in_service" => ENABLED RequestAnswered(d)

CanAccept(i) ==
    (tasks[i].st = "serving" /\ Len(conns) < MaxOpen) => ENABLED SiteAccept(i)

\* C23: while a connection task is suspended at the TLS handshake or inside
\* the handling of a request (the backend round-trip included), however
\* long, every serving site of the run, the task's own site too, can accept
\* a connection and every other connection can be answered.
C23_SuspendedTaskBlocksNoOne ==
    \A c \in 1..Len(conns) :
        (Suspended(c) /\ ServerRuns)
        => /\ \A i \in 1..Len(tasks) : CanAccept(i)
           /\ \A d \in (1..Len(conns)) \ {c} : CanProceed(d)

C23_Witness ==
    /\ mpc = "select_all"
    /\ tasks[2].st = "serving"
    /\ Len(conns) = 2
    /\ conns[1] = SiteConn(1, "handshake")
    /\ conns[2] = SiteConn(1, "answered")

AcceptFailed(i) == tasks[i].result = TaskErr("accept")

TlsHandshakeFailsNow(c) ==
    conns[c].st = "handshake" /\ conns'[c].st = "tls_failed"

\* C28: on a TLS site an error of listener.accept() makes the site server
\* Failed, and the run, single site or multi site, then ends with a non-zero
\* exit status; a failed handshake on an accepted connection changes no site
\* server, which goes on accepting.
C28_AcceptErrorEndsServerHandshakeErrorDoesNot ==
    /\ [](\A i \in 1..Len(tasks) :
            AcceptFailed(i)
            => sites[i].https /\ StageOf(tasks[i]) = "Failed")
    /\ (\E i \in 1..Len(tasks) : AcceptFailed(i))
          ~> (mpc = "exited" /\ ExitCode(outcome) # 0)
    /\ [][\A c \in 1..Len(conns) :
            TlsHandshakeFailsNow(c)
            => tasks' = tasks /\ mpc' = mpc /\ outcome' = outcome]_vars
    /\ [](\A c \in 1..Len(conns) :
            (conns[c].st = "tls_failed" /\ ServerRuns)
            => CanAccept(conns[c].site))

C28_Witness ==
    /\ mpc = "exited"
    /\ Len(tasks) = 2
    /\ tasks[1].st = "serving"
    /\ AcceptFailed(2)
    /\ outcome = MainErr("accept")
    /\ \E c \in 1..Len(conns) :
          conns[c].site = 1 /\ conns[c].st = "tls_failed"

====
